---- MODULE Spec2Model ----
(***************************************************************************)
(* The POST /upload handlers of the fortnite-replay-api variants:          *)
(*   "index"  src/index.js            (light parse, manual header          *)
(*                                     fallback, optional full parse)      *)
(*   "p000a"  src/unnamed/part_000    first handler  (single parse)        *)
(*   "p000b"  src/unnamed/part_000    second handler (parse raced against  *)
(*                                     a 10 s timer)                       *)
(*   "p001"   src/unnamed/part_001    synchronous fs (single parse)        *)
(*   "p002"   src/unnamed/part_002    safeParseReplay ladder               *)
(* A server runs one variant.  Every handler is an async function: it is   *)
(* cut at its awaits, and each action is one continuation, from the        *)
(* settling of the awaited call up to the issuing of the next one.         *)
(* Strings that the code inspects (file names, the decoded magic) are      *)
(* sequences: file names of one-character strings, decoded text of code    *)
(* points, buffers of byte values 0..255.                                  *)
(***************************************************************************)
EXTENDS Integers, Sequences, FiniteSets, TLC

VARIABLES
    variant,        \* which server file is running
    nodeEnv,        \* process.env.NODE_ENV
    pc,             \* per request: position of the handler
    req,            \* per request: req.file / req.query as multer and express built them
    disk,           \* uploads/: per temp path, whether the file is there and its bytes
    replayBuffer,   \* per request: const replayBuffer
    headerData,     \* per request: let headerData
    fullData,       \* per request: let fullData / const parsedData
    err,            \* per request: the error caught by the outer catch
    lastError,      \* per request: let lastError of safeParseReplay
    attempt,        \* per request: position of safeParseReplay's for loop
    timer,          \* per request: the setTimeout of the timeout variant
    parserCalls,    \* per request: configs parseReplay was called with, in order
    readCalls,      \* per request: number of readFile / readFileSync calls
    unlinkCalls,    \* per request: paths unlink was called with and how each call ended
    responses       \* per request: responses sent, in order

vars == <<variant, nodeEnv, pc, req, disk, replayBuffer, headerData, fullData,
          err, lastError, attempt, timer, parserCalls, readCalls, unlinkCalls,
          responses>>

-----------------------------------------------------------------------------
(* Bounds of the model *)

\* longest uploaded file, in bytes
MaxLen == 101
\* number of distinct documents the external parser may return
NumDocs == 2

(* Program constants *)

\* if (replayBuffer.length < 100)
MinReplaySize == 100
\* limits: { fileSize: 50 * 1024 * 1024 }
FileSizeLimit == 50 * 1024 * 1024

-----------------------------------------------------------------------------
(* Requests.  Each upload gets its own temp path from multer (a random     *)
(* file name under uploads/): the path of request r is r.                  *)

Req == {1, 2}

Undefined == [kind |-> "undefined"]

Variants == {"index", "p000a", "p000b", "p001", "p002"}
NodeEnvs == {"development", "production"}

-----------------------------------------------------------------------------
(* Strings *)

\* String.prototype.toLowerCase on the letters the names use
LowerChar(c) ==
    CASE c = "A" -> "a" [] c = "E" -> "e" [] c = "L" -> "l" [] c = "P" -> "p"
      [] c = "R" -> "r" [] c = "T" -> "t" [] c = "X" -> "x" [] c = "Y" -> "y"
      [] OTHER -> c

toLowerCase(s) == [i \in 1..Len(s) |-> LowerChar(s[i])]

\* index of the last "." of s, 0 when there is none
LastDot(s) ==
    LET dots == {i \in 1..Len(s) : s[i] = "."}
    IN  IF dots = {} THEN 0 ELSE CHOOSE i \in dots : \A j \in dots : j <= i

\* path.extname on a name without directory separators (multer hands the
\* handler the base name).  startDot is the last dot; preDotState is 0 when
\* nothing precedes it, 1 when the name starts with a dot, -1 otherwise.
extname(s) ==
    LET startDot    == LastDot(s)
        preDotState == IF startDot <= 1 THEN 0
                       ELSE IF s[1] = "." THEN 1 ELSE -1
    IN  IF \/ startDot = 0
           \/ preDotState = 0
           \/ (preDotState = 1 /\ startDot = Len(s) /\ startDot = 2)
        THEN <<>>
        ELSE SubSeq(s, startDot, Len(s))

DotReplay == <<".", "r", "e", "p", "l", "a", "y">>

\* a faulty extension test: any name that contains ".replay" is accepted
IsReplayExt_Contains(originalname) ==
    \E i \in 1..Len(originalname) :
        /\ i + 6 <= Len(originalname)
        /\ toLowerCase(SubSeq(originalname, i, i + 6)) = DotReplay

\* path.extname(originalname).toLowerCase() === '.replay'
IsReplayExt(originalname) ==
    toLowerCase(extname(originalname)) = DotReplay

-----------------------------------------------------------------------------
(* Buffers *)

\* Buffer.prototype.slice(start, end) with 0 <= start <= end, end clamped
slice(buf, start, end) ==
    SubSeq(buf, start + 1, IF end > Len(buf) THEN Len(buf) ELSE end)

\* Buffer.prototype.toString('utf8'): one- and two-byte sequences are
\* decoded, every other byte becomes U+FFFD
RECURSIVE utf8(_)
utf8(b) ==
    IF b = <<>> THEN <<>>
    ELSE IF b[1] < 128 THEN <<b[1]>> \o utf8(Tail(b))
    ELSE IF /\ b[1] >= 194 /\ b[1] <= 223 /\ Len(b) >= 2
            /\ b[2] >= 128 /\ b[2] <= 191
         THEN <<(b[1] - 192) * 64 + (b[2] - 128)>> \o utf8(Tail(Tail(b)))
    ELSE <<65533>> \o utf8(Tail(b))

\* a faulty version read: Buffer.prototype.readUInt16LE(offset)
readUInt16LE(buf, offset) ==
    buf[offset + 1] + buf[offset + 2] * 256

\* Buffer.prototype.readUInt32LE(offset)
readUInt32LE(buf, offset) ==
    buf[offset + 1] + buf[offset + 2] * 256
      + buf[offset + 3] * 65536 + buf[offset + 4] * 16777216

\* 'ubulk'
Ubulk == <<117, 98, 117, 108, 107>>

\* ASCII-only String.prototype.toLowerCase on code points
LowerCode(c) == IF c >= 65 /\ c <= 90 THEN c + 32 ELSE c

\* a faulty magic test: the comparison ignores case
MagicMismatch_IgnoreCase(magic) ==
    [i \in 1..Len(magic) |-> LowerCode(magic[i])] # Ubulk

\* if (magic !== 'ubulk')
MagicMismatch(magic) == magic # Ubulk

\* a faulty size check: a 5-byte threshold
TooSmall_Five(buf) == Len(buf) < 5

\* if (replayBuffer.length < 100)
TooSmall(buf) == Len(buf) < MinReplaySize

-----------------------------------------------------------------------------
(* Errors and responses *)

\* new Error(message)
Error(message) == [message |-> message, stack |-> <<"Error", message>>]

ReadError       == Error("ENOENT: no such file or directory, open")
UnlinkError     == Error("ENOENT: no such file or directory, unlink")
TooSmallError   == Error("File is too small to be a valid replay.")
MagicError      == Error("Not a valid .replay (magic mismatch).")
RangeError      == Error("Attempt to access memory outside buffer bounds")
FullFailedError == Error("Full parse failed. The replay is likely from a newer Fortnite build not yet supported or has malformed chunks.")

\* what the external parser may throw
ParseErrs == {Error("offset is larger than buffer"), Error("Unsupported replay version")}

\* what the external parser may return
Docs == {[kind |-> "doc", id |-> i] : i \in 1..NumDocs}

\* how one call of parseReplay may settle
ParseOutcomes == [ok : {TRUE}, value : Docs] \cup [ok : {FALSE}, value : ParseErrs]

\* res.status(status).json(body)
Response(status, body) == [status |-> status, body |-> body]

-----------------------------------------------------------------------------
(* The parser configurations of index.js *)

\* { parseLevel: 0, debug: false }
LightConfig == [parseLevel |-> 0, debug |-> FALSE]

\* { parseLevel: 1, debug: false }
StrictConfig == [parseLevel |-> 1, debug |-> FALSE]

\* a faulty fallback: the retry repeats the strict configuration
PermissiveConfig_Strict == [parseLevel |-> 1, debug |-> FALSE]

\* { parseLevel: 1, debug: false, skipChunkErrors: true, failOnChunkError: false }
PermissiveConfig ==
    [parseLevel |-> 1, debug |-> FALSE, skipChunkErrors |-> TRUE, failOnChunkError |-> FALSE]

\* the call log of the parser: a call is logged when it is made and its
\* outcome when it settles
Pending == [kind |-> "pending"]

ParserCalled(log, config) == Append(log, [config |-> config, outcome |-> Pending])

ParserSettled(log, o) == [log EXCEPT ![Len(log)].outcome = o]

-----------------------------------------------------------------------------
(* The file system.  unlink and readFile fail exactly when the file is not *)
(* there (ENOENT); a temp file can disappear under the handler because     *)
(* something else removes it (ExternalRemove).                             *)

Gone == [exists |-> FALSE, data |-> <<>>]

\* a faulty handler: the temp path is kept in a variable shared by all
\* requests, so unlink gets the path of the latest upload
UnlinkIssued_SharedPath(log, path) ==
    LET written == {s \in Req : req[s] # Undefined /\ req[s].file # Undefined}
        latest  == CHOOSE s \in written : \A t \in written : t <= s
    IN  Append(log, [path |-> latest, result |-> "pending"])

\* a call of unlink(path) has been issued
UnlinkIssued(log, path) == Append(log, [path |-> path, result |-> "pending"])

\* the pending call of unlink has settled
UnlinkSettled(log, d) ==
    [log EXCEPT ![Len(log)].result = IF d.exists THEN "ok" ELSE "ENOENT"]

-----------------------------------------------------------------------------
(* What a client may send *)

FileNames ==
    { <<"a", ".", "r", "e", "p", "l", "a", "y">>,
      <<"a", ".", "R", "E", "P", "L", "A", "Y">>,
      <<".", "r", "e", "p", "l", "a", "y">>,
      <<"a", ".", "t", "x", "t">>,
      <<"a", ".", "r", "e", "p", "l", "a", "y", ".", "t", "x", "t">>,
      <<"r", "e", "p", "l", "a", "y">> }

\* the first five bytes: "ubulk", "Ubulk", and "éulk" in UTF-8
Signatures == { Ubulk, <<85, 98, 117, 108, 107>>, <<195, 169, 117, 108, 107>> }

\* bytes 5..8; the top byte stays below 128 so that the version stays
\* below 2^31
VersionBytes == { <<0, 0, 0, 0>>, <<1, 2, 3, 4>>, <<255, 255, 255, 127>> }

FileLens == {0, 8, 9, MinReplaySize - 1, MinReplaySize, MaxLen}

\* the first len bytes of prefix followed by zeros
FileOf(prefix, len) ==
    [i \in 1..len |-> IF i <= Len(prefix) THEN prefix[i] ELSE 0]

FileContents ==
    { FileOf(s \o v, n) : s \in Signatures, v \in VersionBytes, n \in FileLens }

\* req.query.full
FullFlags == { Undefined, [kind |-> "string", value |-> "true"], [kind |-> "string", value |-> "false"] }

-----------------------------------------------------------------------------
(* Initial state: no request has arrived, uploads/ is empty *)

Init ==
    /\ variant \in Variants
    /\ nodeEnv \in NodeEnvs
    /\ pc           = [r \in Req |-> "idle"]
    /\ req          = [r \in Req |-> Undefined]
    /\ disk         = [r \in Req |-> Gone]
    /\ replayBuffer = [r \in Req |-> <<>>]
    /\ headerData   = [r \in Req |-> Undefined]
    /\ fullData     = [r \in Req |-> Undefined]
    /\ err          = [r \in Req |-> Undefined]
    /\ lastError    = [r \in Req |-> Undefined]
    /\ attempt      = [r \in Req |-> 0]
    /\ timer        = [r \in Req |-> "none"]
    /\ parserCalls  = [r \in Req |-> <<>>]
    /\ readCalls    = [r \in Req |-> 0]
    /\ unlinkCalls  = [r \in Req |-> <<>>]
    /\ responses    = [r \in Req |-> <<>>]

Upd(f, r, v) == [f EXCEPT ![r] = v]

\* the handler's local variables
locals == <<replayBuffer, headerData, fullData, err, lastError, attempt, timer>>

-----------------------------------------------------------------------------
(* upload.single('replayFile'): multer stores the file under a fresh path  *)
(* and calls the handler; a file over the size limit, or one the           *)
(* fileFilter refuses, ends in the framework's error handler and the       *)
(* route handler never runs.                                               *)

HasLimit  == variant \in {"index", "p000a", "p000b", "p002"}
HasFilter == variant \in {"p000a", "p000b", "p002"}

UploadSingle(r, hasFile, originalname, content, full) ==
    /\ pc[r] = "idle"
    /\ IF hasFile /\ HasLimit /\ Len(content) > FileSizeLimit
       THEN /\ responses' = Upd(responses, r, <<Response(500, [multerError |-> "File too large"])>>)
            /\ pc' = Upd(pc, r, "done")
            /\ UNCHANGED <<req, disk>>
       ELSE IF hasFile /\ HasFilter /\ ~IsReplayExt(originalname)
       THEN /\ responses' = Upd(responses, r, <<Response(500, [multerError |-> "Only .replay files are allowed"])>>)
            /\ pc' = Upd(pc, r, "done")
            /\ UNCHANGED <<req, disk>>
       ELSE /\ req' = Upd(req, r,
                     [file  |-> IF hasFile THEN [path |-> r, originalname |-> originalname,
                                              size |-> Len(content)]
                                ELSE Undefined,
                      query |-> [full |-> full]])
            /\ disk' = IF hasFile THEN Upd(disk, r, [exists |-> TRUE, data |-> content])
                       ELSE disk
            /\ pc' = Upd(pc, r, "handler")
            /\ UNCHANGED responses
    /\ UNCHANGED <<variant, nodeEnv, locals, parserCalls, readCalls, unlinkCalls>>

\* something other than the handlers removes a temp file
ExternalRemove(r) ==
    /\ disk[r].exists
    /\ disk' = Upd(disk, r, Gone)
    /\ UNCHANGED <<variant, nodeEnv, pc, req, locals, parserCalls, readCalls,
                   unlinkCalls, responses>>

-----------------------------------------------------------------------------
(* src/index.js *)

\* req.query.full === 'true'
WantFullParse(query) == query.full = [kind |-> "string", value |-> "true"]

\* { magic, version, note: 'Header extracted manually; full parser failed.' }
ManualHeader(magic, version) ==
    [magic |-> magic, version |-> version,
     note |-> "Header extracted manually; full parser failed."]

\* a faulty header response: the header is left out
HeaderResponse_NoHeader(header) ==
    Response(200, [success |-> TRUE, type |-> "HEADER_MINIMAL",
                   message |-> "Header parsed (either fully or minimally). To attempt a full chunk parse, re-upload with ?full=true."])

\* res.json({ success: true, type: 'HEADER_MINIMAL', header: headerData, message })
HeaderResponse(header) ==
    Response(200, [success |-> TRUE, type |-> "HEADER_MINIMAL", header |-> header,
                   message |-> "Header parsed (either fully or minimally). To attempt a full chunk parse, re-upload with ?full=true."])

\* a faulty full response: the header is left out
FullResponse_NoHeader(header, data) ==
    Response(200, [success |-> TRUE, type |-> "FULL", data |-> data])

\* res.json({ success: true, type: 'FULL', header: headerData, data: fullData })
FullResponse(header, data) ==
    Response(200, [success |-> TRUE, type |-> "FULL", header |-> header, data |-> data])

\* a faulty error response: the stack is sent in every mode
IxErrorResponse_AlwaysDetails(e, env) ==
    LET message == IF e.message # "" THEN e.message ELSE "Failed to parse replay file."
    IN  Response(500, [error |-> message, details |-> e.stack])

\* a faulty error response: the message is sent under `message` only
IxErrorResponse_MessageOnly(e, env) ==
    IF env = "development"
    THEN Response(500, [message |-> e.message, details |-> e.stack])
    ELSE Response(500, [message |-> e.message])

\* res.status(500).json({ error: err.message || '...', ...(development ? { details: err.stack } : {}) })
IxErrorResponse(e, env) ==
    LET message == IF e.message # "" THEN e.message ELSE "Failed to parse replay file."
    IN  IF env = "development"
        THEN Response(500, [error |-> message, details |-> e.stack])
        ELSE Response(500, [error |-> message])

\* an error reaches the outer catch: it starts with await fs.unlink(replayPath)
IxCatch(r, e) ==
    /\ err' = Upd(err, r, e)
    /\ unlinkCalls' = Upd(unlinkCalls, r, UnlinkIssued(unlinkCalls[r], req[r].file.path))
    /\ pc' = Upd(pc, r, "ix_catch_unlink")

\* lines 149-164: no file; wrong extension; else await fs.readFile
Ix_Start(r) ==
    /\ variant = "index"
    /\ pc[r] = "handler"
    /\ IF req[r].file = Undefined
       THEN /\ responses' = Upd(responses, r, Append(responses[r], Response(400, [error |-> "No file uploaded."])))
            /\ pc' = Upd(pc, r, "done")
            /\ UNCHANGED <<unlinkCalls, readCalls>>
       ELSE IF ~IsReplayExt(req[r].file.originalname)
       THEN /\ unlinkCalls' = Upd(unlinkCalls, r, UnlinkIssued(unlinkCalls[r], req[r].file.path))
            /\ pc' = Upd(pc, r, "ix_ext_unlink")
            /\ UNCHANGED <<responses, readCalls>>
       ELSE /\ readCalls' = Upd(readCalls, r, readCalls[r] + 1)
            /\ pc' = Upd(pc, r, "ix_readFile")
            /\ UNCHANGED <<responses, unlinkCalls>>
    /\ UNCHANGED <<variant, nodeEnv, req, disk, locals, parserCalls>>

\* lines 158-159: the unlink settles, its error is dropped, 400
Ix_ExtUnlinkSettled(r) ==
    /\ variant = "index"
    /\ pc[r] = "ix_ext_unlink"
    /\ unlinkCalls' = Upd(unlinkCalls, r, UnlinkSettled(unlinkCalls[r], disk[req[r].file.path]))
    /\ disk' = Upd(disk, req[r].file.path, Gone)
    /\ responses' = Upd(responses, r, Append(responses[r], Response(400, [error |-> "Only .replay files are allowed."])))
    /\ pc' = Upd(pc, r, "done")
    /\ UNCHANGED <<variant, nodeEnv, req, locals, parserCalls, readCalls>>

\* lines 164-177: readFile settles; size check; the light parse is called
Ix_ReadSettled(r) ==
    /\ variant = "index"
    /\ pc[r] = "ix_readFile"
    /\ LET d == disk[req[r].file.path] IN
       IF ~d.exists
       THEN /\ IxCatch(r, ReadError)
            /\ UNCHANGED <<replayBuffer, parserCalls>>
       ELSE /\ replayBuffer' = Upd(replayBuffer, r, d.data)
            /\ IF TooSmall(d.data)
               THEN /\ IxCatch(r, TooSmallError)
                    /\ UNCHANGED parserCalls
               ELSE /\ parserCalls' = Upd(parserCalls, r, ParserCalled(parserCalls[r], LightConfig))
                    /\ pc' = Upd(pc, r, "ix_light")
                    /\ UNCHANGED <<err, unlinkCalls>>
    /\ UNCHANGED <<variant, nodeEnv, req, disk, headerData, fullData, lastError, attempt,
                   readCalls, responses,
                   timer>>

\* a faulty header-only step: with `full=true` a throw skips the manual
\* reading and leaves the header absent
Ix_LightSettled_Tolerant(r, o) ==
    /\ variant = "index"
    /\ pc[r] = "ix_light"
    /\ LET settledCalls == ParserSettled(parserCalls[r], o)
           magic   == utf8(slice(replayBuffer[r], 0, 5))
           full    == WantFullParse(req[r].query)
           thrown  == ~o.ok /\ ~full /\ MagicMismatch(magic)
           header  == IF o.ok THEN o.value
                      ELSE IF full THEN Undefined
                      ELSE ManualHeader(magic, readUInt32LE(replayBuffer[r], 5))
       IN  IF thrown
           THEN /\ IxCatch(r, MagicError)
                /\ parserCalls' = Upd(parserCalls, r, settledCalls)
                /\ UNCHANGED headerData
           ELSE /\ headerData' = Upd(headerData, r, header)
                /\ IF ~full
                   THEN /\ unlinkCalls' = Upd(unlinkCalls, r, UnlinkIssued(unlinkCalls[r], req[r].file.path))
                        /\ pc' = Upd(pc, r, "ix_header_unlink")
                        /\ parserCalls' = Upd(parserCalls, r, settledCalls)
                        /\ UNCHANGED err
                   ELSE /\ parserCalls' = Upd(parserCalls, r, ParserCalled(settledCalls, StrictConfig))
                        /\ pc' = Upd(pc, r, "ix_full1")
                        /\ UNCHANGED <<err, unlinkCalls>>
    /\ UNCHANGED <<variant, nodeEnv, req, disk, replayBuffer, fullData, lastError,
                   attempt, readCalls, responses,
                   timer>>

\* lines 174-217: the light parse settles; on a throw the magic and the
\* version are read by hand (readUInt32LE throws when bytes 5..8 lie outside
\* the buffer); then either the header is returned (after the
\* unlink) or the first full parse is called
Ix_LightSettled(r, o) ==
    /\ variant = "index"
    /\ pc[r] = "ix_light"
    /\ LET settledCalls == ParserSettled(parserCalls[r], o)
           magic   == utf8(slice(replayBuffer[r], 0, 5))
           outside == 5 + 4 > Len(replayBuffer[r])
           thrown  == ~o.ok /\ (MagicMismatch(magic) \/ outside)
           header  == IF o.ok THEN o.value
                      ELSE ManualHeader(magic, readUInt32LE(replayBuffer[r], 5))
       IN  IF thrown
           THEN /\ IxCatch(r, IF MagicMismatch(magic) THEN MagicError ELSE RangeError)
                /\ parserCalls' = Upd(parserCalls, r, settledCalls)
                /\ UNCHANGED headerData
           ELSE /\ headerData' = Upd(headerData, r, header)
                /\ IF ~WantFullParse(req[r].query)
                   THEN /\ unlinkCalls' = Upd(unlinkCalls, r, UnlinkIssued(unlinkCalls[r], req[r].file.path))
                        /\ pc' = Upd(pc, r, "ix_header_unlink")
                        /\ parserCalls' = Upd(parserCalls, r, settledCalls)
                        /\ UNCHANGED err
                   ELSE /\ parserCalls' = Upd(parserCalls, r, ParserCalled(settledCalls, StrictConfig))
                        /\ pc' = Upd(pc, r, "ix_full1")
                        /\ UNCHANGED <<err, unlinkCalls>>
    /\ UNCHANGED <<variant, nodeEnv, req, disk, replayBuffer, fullData, lastError,
                   attempt, readCalls, responses,
                   timer>>

\* a faulty header branch: the response is sent without `return`, and the
\* handler goes on to the first full parse
Ix_HeaderUnlinkSettled_NoReturn(r) ==
    /\ variant = "index"
    /\ pc[r] = "ix_header_unlink"
    /\ unlinkCalls' = Upd(unlinkCalls, r, UnlinkSettled(unlinkCalls[r], disk[req[r].file.path]))
    /\ disk' = Upd(disk, req[r].file.path, Gone)
    /\ responses' = Upd(responses, r, Append(responses[r], HeaderResponse(headerData[r])))
    /\ parserCalls' = Upd(parserCalls, r, ParserCalled(parserCalls[r], StrictConfig))
    /\ pc' = Upd(pc, r, "ix_full1")
    /\ UNCHANGED <<variant, nodeEnv, req, locals, readCalls>>

\* lines 201-208: the unlink settles, its error is dropped, the header is sent
Ix_HeaderUnlinkSettled(r) ==
    /\ variant = "index"
    /\ pc[r] = "ix_header_unlink"
    /\ unlinkCalls' = Upd(unlinkCalls, r, UnlinkSettled(unlinkCalls[r], disk[req[r].file.path]))
    /\ disk' = Upd(disk, req[r].file.path, Gone)
    /\ responses' = Upd(responses, r, Append(responses[r], HeaderResponse(headerData[r])))
    /\ pc' = Upd(pc, r, "done")
    /\ UNCHANGED <<variant, nodeEnv, req, locals, parserCalls, readCalls>>

\* a faulty first full parse: a throw goes to the outer catch, without fallback
Ix_Full1Settled_NoRetry(r, o) ==
    /\ variant = "index"
    /\ pc[r] = "ix_full1"
    /\ parserCalls' = Upd(parserCalls, r, ParserSettled(parserCalls[r], o))
    /\ IF o.ok
       THEN /\ fullData' = Upd(fullData, r, o.value)
            /\ unlinkCalls' = Upd(unlinkCalls, r, UnlinkIssued(unlinkCalls[r], req[r].file.path))
            /\ pc' = Upd(pc, r, "ix_full_unlink")
            /\ UNCHANGED err
       ELSE /\ IxCatch(r, o.value)
            /\ UNCHANGED fullData
    /\ UNCHANGED <<variant, nodeEnv, req, disk, replayBuffer, headerData,
                   lastError, attempt, readCalls, responses,
                   timer>>

\* a faulty first full parse: the fallback is called whatever the outcome
Ix_Full1Settled_AlwaysRetry(r, o) ==
    /\ variant = "index"
    /\ pc[r] = "ix_full1"
    /\ fullData' = Upd(fullData, r, IF o.ok THEN o.value ELSE fullData[r])
    /\ parserCalls' = Upd(parserCalls, r,
                          ParserCalled(ParserSettled(parserCalls[r], o), PermissiveConfig))
    /\ pc' = Upd(pc, r, "ix_full2")
    /\ UNCHANGED <<variant, nodeEnv, req, disk, replayBuffer, headerData, err,
                   lastError, attempt, readCalls, responses,
                   timer, unlinkCalls>>

\* lines 214-227: the first full parse settles; on a throw the fallback is called
Ix_Full1Settled(r, o) ==
    /\ variant = "index"
    /\ pc[r] = "ix_full1"
    /\ LET settledCalls == ParserSettled(parserCalls[r], o) IN
       IF o.ok
       THEN /\ fullData' = Upd(fullData, r, o.value)
            /\ unlinkCalls' = Upd(unlinkCalls, r, UnlinkIssued(unlinkCalls[r], req[r].file.path))
            /\ pc' = Upd(pc, r, "ix_full_unlink")
            /\ parserCalls' = Upd(parserCalls, r, settledCalls)
       ELSE /\ parserCalls' = Upd(parserCalls, r, ParserCalled(settledCalls, PermissiveConfig))
            /\ pc' = Upd(pc, r, "ix_full2")
            /\ UNCHANGED <<fullData, unlinkCalls>>
    /\ UNCHANGED <<variant, nodeEnv, req, disk, replayBuffer, headerData, err,
                   lastError, attempt, readCalls, responses,
                   timer>>

\* a faulty fallback: the second error is dropped and the handler goes on
\* to the success response
Ix_Full2Settled_Swallow(r, o) ==
    /\ variant = "index"
    /\ pc[r] = "ix_full2"
    /\ parserCalls' = Upd(parserCalls, r, ParserSettled(parserCalls[r], o))
    /\ fullData' = Upd(fullData, r, IF o.ok THEN o.value ELSE Undefined)
    /\ unlinkCalls' = Upd(unlinkCalls, r, UnlinkIssued(unlinkCalls[r], req[r].file.path))
    /\ pc' = Upd(pc, r, "ix_full_unlink")
    /\ UNCHANGED <<variant, nodeEnv, req, disk, replayBuffer, headerData, err,
                   lastError, attempt, readCalls, responses,
                   timer>>

\* lines 222-237: the fallback full parse settles; on a throw the handler
\* throws 'Full parse failed...'
Ix_Full2Settled(r, o) ==
    /\ variant = "index"
    /\ pc[r] = "ix_full2"
    /\ parserCalls' = Upd(parserCalls, r, ParserSettled(parserCalls[r], o))
    /\ IF o.ok
       THEN /\ fullData' = Upd(fullData, r, o.value)
            /\ unlinkCalls' = Upd(unlinkCalls, r, UnlinkIssued(unlinkCalls[r], req[r].file.path))
            /\ pc' = Upd(pc, r, "ix_full_unlink")
            /\ UNCHANGED err
       ELSE /\ IxCatch(r, FullFailedError)
            /\ UNCHANGED fullData
    /\ UNCHANGED <<variant, nodeEnv, req, disk, replayBuffer, headerData,
                   lastError, attempt, readCalls, responses,
                   timer>>

\* lines 237-243: the unlink settles, its error is dropped, the full result is sent
Ix_FullUnlinkSettled(r) ==
    /\ variant = "index"
    /\ pc[r] = "ix_full_unlink"
    /\ unlinkCalls' = Upd(unlinkCalls, r, UnlinkSettled(unlinkCalls[r], disk[req[r].file.path]))
    /\ disk' = Upd(disk, req[r].file.path, Gone)
    /\ responses' = Upd(responses, r, Append(responses[r], FullResponse(headerData[r], fullData[r])))
    /\ pc' = Upd(pc, r, "done")
    /\ UNCHANGED <<variant, nodeEnv, req, locals, parserCalls, readCalls>>

\* a faulty catch block: its unlink has no .catch, so when the file is
\* already gone the handler's promise rejects and no response is sent
Ix_CatchUnlinkSettled_NoCatch(r) ==
    /\ variant = "index"
    /\ pc[r] = "ix_catch_unlink"
    /\ unlinkCalls' = Upd(unlinkCalls, r, UnlinkSettled(unlinkCalls[r], disk[req[r].file.path]))
    /\ disk' = Upd(disk, req[r].file.path, Gone)
    /\ IF disk[req[r].file.path].exists
       THEN /\ responses' = Upd(responses, r, Append(responses[r], IxErrorResponse(err[r], nodeEnv)))
            /\ pc' = Upd(pc, r, "done")
       ELSE /\ pc' = Upd(pc, r, "ix_rejected")
            /\ UNCHANGED responses
    /\ UNCHANGED <<variant, nodeEnv, req, locals, parserCalls, readCalls>>

\* lines 246-251: the catch block's unlink settles, its error is dropped, 500
Ix_CatchUnlinkSettled(r) ==
    /\ variant = "index"
    /\ pc[r] = "ix_catch_unlink"
    /\ unlinkCalls' = Upd(unlinkCalls, r, UnlinkSettled(unlinkCalls[r], disk[req[r].file.path]))
    /\ disk' = Upd(disk, req[r].file.path, Gone)
    /\ responses' = Upd(responses, r, Append(responses[r], IxErrorResponse(err[r], nodeEnv)))
    /\ pc' = Upd(pc, r, "done")
    /\ UNCHANGED <<variant, nodeEnv, req, locals, parserCalls, readCalls>>

\* one step of the handler, the parser settling in one of the given ways
IndexStepWith(r, outcomes) ==
    \/ Ix_Start(r)
    \/ Ix_ExtUnlinkSettled(r)
    \/ Ix_ReadSettled(r)
    \/ \E o \in outcomes : Ix_LightSettled(r, o)
    \/ Ix_HeaderUnlinkSettled(r)
    \/ \E o \in outcomes : Ix_Full1Settled(r, o)
    \/ \E o \in outcomes : Ix_Full2Settled(r, o)
    \/ Ix_FullUnlinkSettled(r)
    \/ Ix_CatchUnlinkSettled(r)

IndexStep(r) == IndexStepWith(r, ParseOutcomes)

-----------------------------------------------------------------------------
(* src/unnamed/part_000, first handler *)

\* { parseLevel: 1, debug: false, skipChunkErrors: true }
P0Config == [parseLevel |-> 1, debug |-> FALSE, skipChunkErrors |-> TRUE]

\* res.status(500).json({ error, message: err.message, details: development ? err.stack : undefined })
P0ErrorResponse(e, env) ==
    IF env = "development"
    THEN Response(500, [error |-> "Replay parsing failed", message |-> e.message, details |-> e.stack])
    ELSE Response(500, [error |-> "Replay parsing failed", message |-> e.message])

\* an error reaches the catch: try { await fs.unlink(replayPath); } catch (_) {}
P0Catch(r, e) ==
    /\ err' = Upd(err, r, e)
    /\ unlinkCalls' = Upd(unlinkCalls, r, UnlinkIssued(unlinkCalls[r], req[r].file.path))
    /\ pc' = Upd(pc, r, "p0_catch_unlink")

\* lines 32-39
P0_Start(r) ==
    /\ variant = "p000a"
    /\ pc[r] = "handler"
    /\ IF req[r].file = Undefined
       THEN /\ responses' = Upd(responses, r, Append(responses[r], Response(400, [error |-> "No replay file provided."])))
            /\ pc' = Upd(pc, r, "done")
            /\ UNCHANGED readCalls
       ELSE /\ readCalls' = Upd(readCalls, r, readCalls[r] + 1)
            /\ pc' = Upd(pc, r, "p0_readFile")
            /\ UNCHANGED responses
    /\ UNCHANGED <<variant, nodeEnv, req, disk, locals, parserCalls, unlinkCalls>>

\* lines 39-46
P0_ReadSettled(r) ==
    /\ variant = "p000a"
    /\ pc[r] = "p0_readFile"
    /\ LET d == disk[req[r].file.path] IN
       IF ~d.exists
       THEN /\ P0Catch(r, ReadError)
            /\ UNCHANGED <<replayBuffer, parserCalls>>
       ELSE /\ replayBuffer' = Upd(replayBuffer, r, d.data)
            /\ parserCalls' = Upd(parserCalls, r, ParserCalled(parserCalls[r], P0Config))
            /\ pc' = Upd(pc, r, "p0_parse")
            /\ UNCHANGED <<err, unlinkCalls>>
    /\ UNCHANGED <<variant, nodeEnv, req, disk, headerData, fullData, lastError,
                   attempt, readCalls, responses,
                   timer>>

\* lines 46-47
P0_ParseSettled(r, o) ==
    /\ variant = "p000a"
    /\ pc[r] = "p0_parse"
    /\ parserCalls' = Upd(parserCalls, r, ParserSettled(parserCalls[r], o))
    /\ IF o.ok
       THEN /\ fullData' = Upd(fullData, r, o.value)
            /\ unlinkCalls' = Upd(unlinkCalls, r, UnlinkIssued(unlinkCalls[r], req[r].file.path))
            /\ pc' = Upd(pc, r, "p0_unlink")
            /\ UNCHANGED err
       ELSE /\ P0Catch(r, o.value)
            /\ UNCHANGED fullData
    /\ UNCHANGED <<variant, nodeEnv, req, disk, replayBuffer, headerData, lastError,
                   attempt, readCalls, responses,
                   timer>>

\* lines 47-52: await fs.unlink(replayPath) has no catch of its own: when it
\* rejects, control goes to the catch block
P0_UnlinkSettled(r) ==
    /\ variant = "p000a"
    /\ pc[r] = "p0_unlink"
    /\ LET d       == disk[req[r].file.path]
           settled == UnlinkSettled(unlinkCalls[r], d)
       IN  /\ disk' = Upd(disk, req[r].file.path, Gone)
           /\ IF d.exists
              THEN /\ unlinkCalls' = Upd(unlinkCalls, r, settled)
                   /\ responses' = Upd(responses, r, Append(responses[r],
                                       Response(200, [success |-> TRUE, data |-> fullData[r]])))
                   /\ pc' = Upd(pc, r, "done")
                   /\ UNCHANGED err
              ELSE /\ err' = Upd(err, r, UnlinkError)
                   /\ unlinkCalls' = Upd(unlinkCalls, r, UnlinkIssued(settled, req[r].file.path))
                   /\ pc' = Upd(pc, r, "p0_catch_unlink")
                   /\ UNCHANGED responses
    /\ UNCHANGED <<variant, nodeEnv, req, replayBuffer, headerData, fullData,
                   lastError, attempt, parserCalls, readCalls,
                   timer>>

\* lines 54-61
P0_CatchUnlinkSettled(r) ==
    /\ variant = "p000a"
    /\ pc[r] = "p0_catch_unlink"
    /\ unlinkCalls' = Upd(unlinkCalls, r, UnlinkSettled(unlinkCalls[r], disk[req[r].file.path]))
    /\ disk' = Upd(disk, req[r].file.path, Gone)
    /\ responses' = Upd(responses, r, Append(responses[r], P0ErrorResponse(err[r], nodeEnv)))
    /\ pc' = Upd(pc, r, "done")
    /\ UNCHANGED <<variant, nodeEnv, req, locals, parserCalls, readCalls>>

P000aStep(r) ==
    \/ P0_Start(r)
    \/ P0_ReadSettled(r)
    \/ \E o \in ParseOutcomes : P0_ParseSettled(r, o)
    \/ P0_UnlinkSettled(r)
    \/ P0_CatchUnlinkSettled(r)

-----------------------------------------------------------------------------
(* src/unnamed/part_000, second handler: the parse is raced against a      *)
(* timer.  Promise.race settles with whichever settles first; the loser    *)
(* settles later into a promise nobody awaits any more.                    *)

\* { parseLevel: 1, debug: false, skipChunkErrors: true, failOnChunkError: false }
PTConfig ==
    [parseLevel |-> 1, debug |-> FALSE, skipChunkErrors |-> TRUE, failOnChunkError |-> FALSE]

\* reject(new Error('Parsing timeout'))
TimeoutError == Error("Parsing timeout")

\* res.status(500).json({ error, message, stack: development ? err.stack : undefined, suggestions })
PTErrorResponse(e, env) ==
    LET suggestions == <<"Try a different replay file",
                         "The replay might be from an unsupported Fortnite version",
                         "The file might be corrupted">>
    IN  IF env = "development"
        THEN Response(500, [error |-> "Failed to parse replay file", message |-> e.message,
                            stack |-> e.stack, suggestions |-> suggestions])
        ELSE Response(500, [error |-> "Failed to parse replay file", message |-> e.message,
                            suggestions |-> suggestions])

\* an error reaches the catch: try { await fs.unlink(replayPath); } catch (_) {}
PTCatch(r, e, log) ==
    /\ err' = Upd(err, r, e)
    /\ unlinkCalls' = Upd(unlinkCalls, r, UnlinkIssued(log, req[r].file.path))
    /\ pc' = Upd(pc, r, "pt_catch_unlink")

\* lines 122-130
PT_Start(r) ==
    /\ variant = "p000b"
    /\ pc[r] = "handler"
    /\ IF req[r].file = Undefined
       THEN /\ responses' = Upd(responses, r, Append(responses[r], Response(400, [error |-> "No replay file provided."])))
            /\ pc' = Upd(pc, r, "done")
            /\ UNCHANGED readCalls
       ELSE /\ readCalls' = Upd(readCalls, r, readCalls[r] + 1)
            /\ pc' = Upd(pc, r, "pt_readFile")
            /\ UNCHANGED responses
    /\ UNCHANGED <<variant, nodeEnv, req, disk, locals, parserCalls, unlinkCalls>>

\* lines 130-146: readFile settles; the parser is called and the timer is set
PT_ReadSettled(r) ==
    /\ variant = "p000b"
    /\ pc[r] = "pt_readFile"
    /\ LET d == disk[req[r].file.path] IN
       IF ~d.exists
       THEN /\ PTCatch(r, ReadError, unlinkCalls[r])
            /\ UNCHANGED <<replayBuffer, parserCalls, timer>>
       ELSE /\ replayBuffer' = Upd(replayBuffer, r, d.data)
            /\ parserCalls' = Upd(parserCalls, r, ParserCalled(parserCalls[r], PTConfig))
            /\ timer' = Upd(timer, r, "set")
            /\ pc' = Upd(pc, r, "pt_race")
            /\ UNCHANGED <<err, unlinkCalls>>
    /\ UNCHANGED <<variant, nodeEnv, req, disk, headerData, fullData, lastError,
                   attempt, readCalls, responses>>

\* lines 141-148: the parse settles before the timer fires
PT_ParseSettled(r, o) ==
    /\ variant = "p000b"
    /\ pc[r] = "pt_race"
    /\ parserCalls' = Upd(parserCalls, r, ParserSettled(parserCalls[r], o))
    /\ IF o.ok
       THEN /\ fullData' = Upd(fullData, r, o.value)
            /\ unlinkCalls' = Upd(unlinkCalls, r, UnlinkIssued(unlinkCalls[r], req[r].file.path))
            /\ pc' = Upd(pc, r, "pt_unlink")
            /\ UNCHANGED err
       ELSE /\ PTCatch(r, o.value, unlinkCalls[r])
            /\ UNCHANGED fullData
    /\ UNCHANGED <<variant, nodeEnv, req, disk, replayBuffer, headerData, lastError,
                   attempt, timer, readCalls, responses>>

\* lines 143-145: the timer fires before the parse settles
PT_TimerFired(r) ==
    /\ variant = "p000b"
    /\ pc[r] = "pt_race"
    /\ timer[r] = "set"
    /\ timer' = Upd(timer, r, "fired")
    /\ PTCatch(r, TimeoutError, unlinkCalls[r])
    /\ UNCHANGED <<variant, nodeEnv, req, disk, replayBuffer, headerData, fullData,
                   lastError, attempt, parserCalls, readCalls, responses>>

\* a faulty late settle: a parse that succeeds after the race is over
\* resumes the success path
PT_LateParseSettled_Resumes(r, o) ==
    /\ variant = "p000b"
    /\ pc[r] # "pt_race"
    /\ parserCalls[r] # <<>>
    /\ parserCalls[r][Len(parserCalls[r])].outcome = Pending
    /\ parserCalls' = Upd(parserCalls, r, ParserSettled(parserCalls[r], o))
    /\ IF o.ok
       THEN /\ fullData' = Upd(fullData, r, o.value)
            /\ unlinkCalls' = Upd(unlinkCalls, r, UnlinkIssued(unlinkCalls[r], req[r].file.path))
            /\ pc' = Upd(pc, r, "pt_unlink")
       ELSE UNCHANGED <<fullData, unlinkCalls, pc>>
    /\ UNCHANGED <<variant, nodeEnv, req, disk, replayBuffer, headerData, err,
                   lastError, attempt, timer, readCalls, responses>>

\* the parse settles after the race is over
PT_LateParseSettled(r, o) ==
    /\ variant = "p000b"
    /\ pc[r] # "pt_race"
    /\ parserCalls[r] # <<>>
    /\ parserCalls[r][Len(parserCalls[r])].outcome = Pending
    /\ parserCalls' = Upd(parserCalls, r, ParserSettled(parserCalls[r], o))
    /\ UNCHANGED <<variant, nodeEnv, pc, req, disk, locals, readCalls, unlinkCalls,
                   responses>>

\* the timer fires after the race is over
PT_LateTimerFired(r) ==
    /\ variant = "p000b"
    /\ pc[r] # "pt_race"
    /\ timer[r] = "set"
    /\ timer' = Upd(timer, r, "fired")
    /\ UNCHANGED <<variant, nodeEnv, pc, req, disk, replayBuffer, headerData, fullData,
                   err, lastError, attempt, parserCalls, readCalls, unlinkCalls,
                   responses>>

\* lines 148-152: await fs.unlink(replayPath) has no catch of its own: when
\* it rejects, control goes to the catch block
PT_UnlinkSettled(r) ==
    /\ variant = "p000b"
    /\ pc[r] = "pt_unlink"
    /\ LET d       == disk[req[r].file.path]
           settled == UnlinkSettled(unlinkCalls[r], d)
       IN  /\ disk' = Upd(disk, req[r].file.path, Gone)
           /\ IF d.exists
              THEN /\ unlinkCalls' = Upd(unlinkCalls, r, settled)
                   /\ responses' = Upd(responses, r, Append(responses[r],
                                       Response(200, [success |-> TRUE, data |-> fullData[r]])))
                   /\ pc' = Upd(pc, r, "done")
                   /\ UNCHANGED err
              ELSE /\ PTCatch(r, UnlinkError, settled)
                   /\ UNCHANGED responses
    /\ UNCHANGED <<variant, nodeEnv, req, replayBuffer, headerData, fullData,
                   lastError, attempt, timer, parserCalls, readCalls>>

\* lines 156-170
PT_CatchUnlinkSettled(r) ==
    /\ variant = "p000b"
    /\ pc[r] = "pt_catch_unlink"
    /\ unlinkCalls' = Upd(unlinkCalls, r, UnlinkSettled(unlinkCalls[r], disk[req[r].file.path]))
    /\ disk' = Upd(disk, req[r].file.path, Gone)
    /\ responses' = Upd(responses, r, Append(responses[r], PTErrorResponse(err[r], nodeEnv)))
    /\ pc' = Upd(pc, r, "done")
    /\ UNCHANGED <<variant, nodeEnv, req, locals, parserCalls, readCalls>>

P000bStep(r) ==
    \/ PT_Start(r)
    \/ PT_ReadSettled(r)
    \/ \E o \in ParseOutcomes : PT_ParseSettled(r, o)
    \/ PT_TimerFired(r)
    \/ \E o \in ParseOutcomes : PT_LateParseSettled(r, o)
    \/ PT_LateTimerFired(r)
    \/ PT_UnlinkSettled(r)
    \/ PT_CatchUnlinkSettled(r)

-----------------------------------------------------------------------------
(* src/unnamed/part_001: readFileSync and unlinkSync run inside the step *)

\* { parseLevel: 10, debug: false }
P1Config == [parseLevel |-> 10, debug |-> FALSE]

\* res.status(500).json({ error: 'Failed to parse replay file.', message: err.message })
P1ErrorResponse(e) ==
    Response(500, [error |-> "Failed to parse replay file.", message |-> e.message])

\* catch (err) { try { fs.unlinkSync(replayPath); } catch (e) {} ... res.status(500).json(...) }
\* entered with the unlink log as it stands at the throw
P1Catch(r, e, log, d) ==
    /\ err' = Upd(err, r, e)
    /\ unlinkCalls' = Upd(unlinkCalls, r, UnlinkSettled(UnlinkIssued(log, req[r].file.path), d))
    /\ disk' = Upd(disk, req[r].file.path, Gone)
    /\ responses' = Upd(responses, r, Append(responses[r], P1ErrorResponse(e)))
    /\ pc' = Upd(pc, r, "done")

\* lines 47-60
P1_Start(r) ==
    /\ variant = "p001"
    /\ pc[r] = "handler"
    /\ IF req[r].file = Undefined
       THEN /\ responses' = Upd(responses, r, Append(responses[r], Response(400, [error |-> "No replay file provided."])))
            /\ pc' = Upd(pc, r, "done")
            /\ UNCHANGED <<readCalls, replayBuffer, parserCalls, err, unlinkCalls, disk>>
       ELSE LET d == disk[req[r].file.path] IN
            /\ readCalls' = Upd(readCalls, r, readCalls[r] + 1)
            /\ IF ~d.exists
               THEN /\ P1Catch(r, ReadError, unlinkCalls[r], d)
                    /\ UNCHANGED <<replayBuffer, parserCalls>>
               ELSE /\ replayBuffer' = Upd(replayBuffer, r, d.data)
                    /\ parserCalls' = Upd(parserCalls, r, ParserCalled(parserCalls[r], P1Config))
                    /\ pc' = Upd(pc, r, "p1_parse")
                    /\ UNCHANGED <<err, unlinkCalls, disk, responses>>
    /\ UNCHANGED <<variant, nodeEnv, req, headerData, fullData, lastError, attempt,
                   timer>>

\* lines 60-80: fs.unlinkSync(replayPath) at line 63 has no catch of its
\* own: when it throws, control goes to the catch block
P1_ParseSettled(r, o) ==
    /\ variant = "p001"
    /\ pc[r] = "p1_parse"
    /\ parserCalls' = Upd(parserCalls, r, ParserSettled(parserCalls[r], o))
    /\ LET d     == disk[req[r].file.path]
           first == UnlinkSettled(UnlinkIssued(unlinkCalls[r], req[r].file.path), d)
       IN  IF o.ok
           THEN /\ fullData' = Upd(fullData, r, o.value)
                /\ IF d.exists
                   THEN /\ unlinkCalls' = Upd(unlinkCalls, r, first)
                        /\ disk' = Upd(disk, req[r].file.path, Gone)
                        /\ responses' = Upd(responses, r, Append(responses[r], Response(200, o.value)))
                        /\ pc' = Upd(pc, r, "done")
                        /\ UNCHANGED err
                   ELSE P1Catch(r, UnlinkError, first, Gone)
           ELSE /\ P1Catch(r, o.value, unlinkCalls[r], d)
                /\ UNCHANGED fullData
    /\ UNCHANGED <<variant, nodeEnv, req, replayBuffer, headerData, lastError,
                   attempt, readCalls,
                   timer>>

P001Step(r) ==
    \/ P1_Start(r)
    \/ \E o \in ParseOutcomes : P1_ParseSettled(r, o)

-----------------------------------------------------------------------------
(* src/unnamed/part_002 *)

\* const parseAttempts = [ ... ]
parseAttempts ==
    << [parseLevel |-> 0],
       [parseLevel |-> 1, skipChunkErrors |-> TRUE, failOnChunkError |-> FALSE, debug |-> FALSE],
       [parseLevel |-> 1, skipChunkErrors |-> TRUE, failOnChunkError |-> FALSE, debug |-> TRUE] >>

\* throw new Error('File is too small to be a valid replay')
P2TooSmallError == Error("File is too small to be a valid replay")

\* res.status(500).json({ error: 'Failed to parse replay file', details: { message: err.message, ... } })
P2ErrorResponse(e) ==
    Response(500, [error |-> "Failed to parse replay file",
                   details |-> [message |-> e.message,
                                possibleCauses |-> <<"The replay file might be corrupted",
                                                     "Unsupported Fortnite version",
                                                     "Parser limitation with this replay type">>,
                                solutions |-> <<"Try a different replay file",
                                                "Check for updates to fortnite-replay-parser",
                                                "Contact support with this replay file">>]])

\* an error reaches the catch: await fs.unlink(replayPath).catch(() => {})
P2Catch(r, e, log) ==
    /\ err' = Upd(err, r, e)
    /\ unlinkCalls' = Upd(unlinkCalls, r, UnlinkIssued(log, req[r].file.path))
    /\ pc' = Upd(pc, r, "p2_catch_unlink")

\* lines 209-217
P2_Start(r) ==
    /\ variant = "p002"
    /\ pc[r] = "handler"
    /\ IF req[r].file = Undefined
       THEN /\ responses' = Upd(responses, r, Append(responses[r], Response(400, [error |-> "No file uploaded"])))
            /\ pc' = Upd(pc, r, "done")
            /\ UNCHANGED readCalls
       ELSE /\ readCalls' = Upd(readCalls, r, readCalls[r] + 1)
            /\ pc' = Upd(pc, r, "p2_readFile")
            /\ UNCHANGED responses
    /\ UNCHANGED <<variant, nodeEnv, req, disk, locals, parserCalls, unlinkCalls>>

\* lines 217-223 and 174-196: readFile settles; size check; safeParseReplay
\* starts its loop and calls the parser with the first configuration
P2_ReadSettled(r) ==
    /\ variant = "p002"
    /\ pc[r] = "p2_readFile"
    /\ LET d == disk[req[r].file.path] IN
       IF ~d.exists
       THEN /\ P2Catch(r, ReadError, unlinkCalls[r])
            /\ UNCHANGED <<replayBuffer, parserCalls, attempt>>
       ELSE /\ replayBuffer' = Upd(replayBuffer, r, d.data)
            /\ IF TooSmall(d.data)
               THEN /\ P2Catch(r, P2TooSmallError, unlinkCalls[r])
                    /\ UNCHANGED <<parserCalls, attempt>>
               ELSE /\ attempt' = Upd(attempt, r, 1)
                    /\ parserCalls' = Upd(parserCalls, r, ParserCalled(parserCalls[r], parseAttempts[1]))
                    /\ pc' = Upd(pc, r, "p2_parse")
                    /\ UNCHANGED <<err, unlinkCalls>>
    /\ UNCHANGED <<variant, nodeEnv, req, disk, headerData, fullData, lastError,
                   readCalls, responses,
                   timer>>

\* a faulty loop: when every attempt threw, the first error is thrown
P2_AttemptSettled_FirstError(r, o) ==
    /\ variant = "p002"
    /\ pc[r] = "p2_parse"
    /\ LET settledCalls == ParserSettled(parserCalls[r], o) IN
       IF o.ok
       THEN /\ fullData' = Upd(fullData, r, o.value)
            /\ unlinkCalls' = Upd(unlinkCalls, r, UnlinkIssued(unlinkCalls[r], req[r].file.path))
            /\ pc' = Upd(pc, r, "p2_unlink")
            /\ parserCalls' = Upd(parserCalls, r, settledCalls)
            /\ UNCHANGED <<err, lastError, attempt>>
       ELSE /\ lastError' = Upd(lastError, r, o.value)
            /\ IF attempt[r] < Len(parseAttempts)
               THEN /\ attempt' = Upd(attempt, r, attempt[r] + 1)
                    /\ parserCalls' = Upd(parserCalls, r, ParserCalled(settledCalls, parseAttempts[attempt[r] + 1]))
                    /\ UNCHANGED <<pc, err, unlinkCalls>>
               ELSE /\ P2Catch(r, settledCalls[1].outcome.value, unlinkCalls[r])
                    /\ parserCalls' = Upd(parserCalls, r, settledCalls)
                    /\ UNCHANGED attempt
            /\ UNCHANGED fullData
    /\ UNCHANGED <<variant, nodeEnv, req, disk, replayBuffer, headerData,
                   readCalls, responses,
                   timer>>

\* lines 193-204 and 223-226: one attempt of safeParseReplay settles: its
\* result is returned, or the next configuration is tried, or lastError is thrown
P2_AttemptSettled(r, o) ==
    /\ variant = "p002"
    /\ pc[r] = "p2_parse"
    /\ LET settledCalls == ParserSettled(parserCalls[r], o) IN
       IF o.ok
       THEN /\ fullData' = Upd(fullData, r, o.value)
            /\ unlinkCalls' = Upd(unlinkCalls, r, UnlinkIssued(unlinkCalls[r], req[r].file.path))
            /\ pc' = Upd(pc, r, "p2_unlink")
            /\ parserCalls' = Upd(parserCalls, r, settledCalls)
            /\ UNCHANGED <<err, lastError, attempt>>
       ELSE /\ lastError' = Upd(lastError, r, o.value)
            /\ IF attempt[r] < Len(parseAttempts)
               THEN /\ attempt' = Upd(attempt, r, attempt[r] + 1)
                    /\ parserCalls' = Upd(parserCalls, r, ParserCalled(settledCalls, parseAttempts[attempt[r] + 1]))
                    /\ UNCHANGED <<pc, err, unlinkCalls>>
               ELSE /\ P2Catch(r, o.value, unlinkCalls[r])
                    /\ parserCalls' = Upd(parserCalls, r, settledCalls)
                    /\ UNCHANGED attempt
            /\ UNCHANGED fullData
    /\ UNCHANGED <<variant, nodeEnv, req, disk, replayBuffer, headerData,
                   readCalls, responses,
                   timer>>

\* lines 226-231: await fs.unlink(replayPath) has no catch of its own: when
\* it rejects, control goes to the catch block
P2_UnlinkSettled(r) ==
    /\ variant = "p002"
    /\ pc[r] = "p2_unlink"
    /\ LET d       == disk[req[r].file.path]
           settled == UnlinkSettled(unlinkCalls[r], d)
       IN  /\ disk' = Upd(disk, req[r].file.path, Gone)
           /\ IF d.exists
              THEN /\ unlinkCalls' = Upd(unlinkCalls, r, settled)
                   /\ responses' = Upd(responses, r, Append(responses[r],
                                       Response(200, [success |-> TRUE, data |-> fullData[r]])))
                   /\ pc' = Upd(pc, r, "done")
                   /\ UNCHANGED err
              ELSE /\ P2Catch(r, UnlinkError, settled)
                   /\ UNCHANGED responses
    /\ UNCHANGED <<variant, nodeEnv, req, replayBuffer, headerData, fullData,
                   lastError, attempt, parserCalls, readCalls,
                   timer>>

\* lines 235-257
P2_CatchUnlinkSettled(r) ==
    /\ variant = "p002"
    /\ pc[r] = "p2_catch_unlink"
    /\ unlinkCalls' = Upd(unlinkCalls, r, UnlinkSettled(unlinkCalls[r], disk[req[r].file.path]))
    /\ disk' = Upd(disk, req[r].file.path, Gone)
    /\ responses' = Upd(responses, r, Append(responses[r], P2ErrorResponse(err[r])))
    /\ pc' = Upd(pc, r, "done")
    /\ UNCHANGED <<variant, nodeEnv, req, locals, parserCalls, readCalls>>

P002Step(r) ==
    \/ P2_Start(r)
    \/ P2_ReadSettled(r)
    \/ \E o \in ParseOutcomes : P2_AttemptSettled(r, o)
    \/ P2_UnlinkSettled(r)
    \/ P2_CatchUnlinkSettled(r)

-----------------------------------------------------------------------------
(* One upload at a time *)

Arrive(r) ==
    \E hasFile \in BOOLEAN, originalname \in FileNames, content \in FileContents,
       full \in FullFlags :
        UploadSingle(r, hasFile, originalname, content, full)

Step(r) ==
    \/ Arrive(r)
    \/ ExternalRemove(r)
    \/ IndexStep(r)
    \/ P000aStep(r)
    \/ P000bStep(r)
    \/ P001Step(r)
    \/ P002Step(r)

Next == Step(1)

Spec == Init /\ [][Next]_vars

-----------------------------------------------------------------------------
(* Two uploads handled concurrently by src/index.js.  The event loop runs  *)
(* one continuation at a time and may take the next one from either        *)
(* request.  Each request has its own parser double (document r, one       *)
(* error) and uploads bytes that carry its number in byte 5.               *)

ConcNames ==
    { <<"a", ".", "r", "e", "p", "l", "a", "y">>, <<"a", ".", "t", "x", "t">> }

ConcContents(r) ==
    { FileOf(s \o <<r, 0, 0, 0>>, n) :
        s \in {Ubulk, <<85, 98, 117, 108, 107>>}, n \in {8, MinReplaySize} }

ConcFullFlags == { Undefined, [kind |-> "string", value |-> "true"] }

ConcOutcomes(r) ==
    { [ok |-> TRUE, value |-> [kind |-> "doc", id |-> r]],
      [ok |-> FALSE, value |-> Error("offset is larger than buffer")] }

ConcArrive(r) ==
    \E hasFile \in BOOLEAN, originalname \in ConcNames, content \in ConcContents(r),
       full \in ConcFullFlags :
        UploadSingle(r, hasFile, originalname, content, full)

InitConc == Init /\ variant = "index"

NextConc ==
    \E r \in Req :
        \/ ConcArrive(r)
        \/ ExternalRemove(r)
        \/ IndexStepWith(r, ConcOutcomes(r))

SpecConc == InitConc /\ [][NextConc]_vars

-----------------------------------------------------------------------------
(* One upload handled by src/index.js, every awaited call settling in the  *)
(* end: a continuation of the handler that stays ready to run is run.  The *)
(* handler's continuation is ready in every state between the handler's    *)
(* start and its response, so weak fairness of the handler's step is what  *)
(* "every parser call and every file operation eventually returns or       *)
(* throws" gives.  Uploads arriving and files removed from outside are not *)
(* forced.                                                                 *)

InitIx == Init /\ variant = "index"

NextIx ==
    \/ Arrive(1)
    \/ ExternalRemove(1)
    \/ IndexStep(1)

SpecIxFair == InitIx /\ [][NextIx]_vars /\ WF_vars(IndexStep(1))

-----------------------------------------------------------------------------
(* Vocabulary of the properties *)

Responded(r)   == responses[r] # <<>>
Resp(r)        == responses[r][1]
FileWritten(r) == req[r] # Undefined /\ req[r].file # Undefined
ExtAccepted(r) == FileWritten(r) /\ IsReplayExt(req[r].file.originalname)

IsSuccess(resp) == resp.status = 200 /\ "error" \notin DOMAIN resp.body
IsFailure(resp) == resp.status >= 400 /\ "error" \in DOMAIN resp.body

FullUnset(r) == req[r].query.full = Undefined
FullTrue(r)  == req[r].query.full = [kind |-> "string", value |-> "true"]

Threw(call)     == call.outcome # Pending /\ ~call.outcome.ok
Returned(call)  == call.outcome # Pending /\ call.outcome.ok

\* the calls made with a full-depth configuration of index.js that threw
FullThrows(r) ==
    {i \in 1..Len(parserCalls[r]) :
        parserCalls[r][i].config.parseLevel = 1 /\ Threw(parserCalls[r][i])}

UnlinkFailed(r) ==
    \E i \in 1..Len(unlinkCalls[r]) : unlinkCalls[r][i].result = "ENOENT"

\* the parse the response is built from has succeeded
ParsingSucceeded(r) ==
    IF variant = "index" /\ ~FullTrue(r)
    THEN headerData[r] # Undefined
    ELSE fullData[r] # Undefined

\* the name ends in ".replay", whatever the case of its letters
EndsInDotReplay(name) ==
    /\ Len(name) >= 7
    /\ toLowerCase(SubSeq(name, Len(name) - 6, Len(name))) = DotReplay

-----------------------------------------------------------------------------
(* C1: for every request for which a temp file was written, on every exit  *)
(* path, by the time the response is sent exactly one deletion of the temp *)
(* file has been attempted and has settled, and the file is gone.          *)
C1_DeletedExactlyOnceBeforeResponse ==
    \A r \in Req :
        (Responded(r) /\ FileWritten(r)) =>
            /\ Len(unlinkCalls[r]) = 1
            /\ unlinkCalls[r][1].path = req[r].file.path
            /\ unlinkCalls[r][1].result # "pending"
            /\ ~disk[req[r].file.path].exists

(* C2: in every variant, when parsing succeeded and the deletion of the    *)
(* temp file then fails, the caller still gets the success response, and   *)
(* the response carries no deletion error.                                 *)
C2_DeletionFailureNeverChangesResponse ==
    \A r \in Req :
        (Responded(r) /\ FileWritten(r) /\ ParsingSucceeded(r) /\ UnlinkFailed(r)) =>
            /\ Resp(r).status = 200
            /\ "error" \notin DOMAIN Resp(r).body

(* C3: index.js, `full` unset, extension and size accepted, the header-only*)
(* parser call succeeds: the response is the success response whose header *)
(* is exactly the parser's result, the temp file is gone, and the parser   *)
(* was called exactly once, with the header-only configuration.            *)
C3_LightSuccessReturnsParserHeader ==
    \A r \in Req :
        ( /\ variant = "index" /\ Responded(r) /\ ExtAccepted(r) /\ FullUnset(r)
          /\ parserCalls[r] # <<>> /\ Returned(parserCalls[r][1]) ) =>
            /\ IsSuccess(Resp(r))
            /\ Resp(r).body.success = TRUE
            /\ "header" \in DOMAIN Resp(r).body
            /\ Resp(r).body.header = parserCalls[r][1].outcome.value
            /\ ~disk[req[r].file.path].exists
            /\ Len(parserCalls[r]) = 1
            /\ parserCalls[r][1].config = [parseLevel |-> 0, debug |-> FALSE]
            /\ Len(responses[r]) = 1

C3_Witness ==
    \E r \in Req :
        /\ variant = "index" /\ Responded(r) /\ ExtAccepted(r) /\ FullUnset(r)
        /\ parserCalls[r] # <<>> /\ Returned(parserCalls[r][1])
        /\ Resp(r).body.header \in Docs

(* C4: index.js, `full` unset, the header-only parser call throws and the  *)
(* first five bytes are the signature: the response is a success whose     *)
(* header holds the signature, equal to bytes 0..4, and the version, equal *)
(* to the unsigned little-endian 32-bit value of bytes 5..8; the parser    *)
(* was called exactly once and no error is reported.                       *)
C4_LightFailureDegradesToManualHeader ==
    \A r \in Req :
        ( /\ variant = "index" /\ Responded(r) /\ ExtAccepted(r) /\ FullUnset(r)
          /\ parserCalls[r] # <<>> /\ Threw(parserCalls[r][1])
          /\ SubSeq(replayBuffer[r], 1, 5) = <<117, 98, 117, 108, 107>> ) =>
            LET b == replayBuffer[r] IN
            /\ IsSuccess(Resp(r))
            /\ Resp(r).body.success = TRUE
            /\ Resp(r).body.header.magic = SubSeq(b, 1, 5)
            /\ Resp(r).body.header.version
                 = b[6] + 256 * b[7] + 65536 * b[8] + 16777216 * b[9]
            /\ Len(parserCalls[r]) = 1
            /\ Len(responses[r]) = 1

C4_Witness ==
    \E r \in Req :
        /\ variant = "index" /\ Responded(r) /\ ExtAccepted(r) /\ FullUnset(r)
        /\ parserCalls[r] # <<>> /\ Threw(parserCalls[r][1])
        /\ SubSeq(replayBuffer[r], 1, 5) = <<117, 98, 117, 108, 107>>
        /\ Resp(r).body.header.version = 1 + 256 * 2 + 65536 * 3 + 16777216 * 4

(* C5, as stated: index.js, `full=true`, both full-depth attempts throw:   *)
(* the parser was called exactly twice in the whole request, strict        *)
(* configuration then permissive configuration.                            *)
C5_ExactlyTwoParserCalls ==
    \A r \in Req :
        ( /\ variant = "index" /\ Responded(r) /\ FullTrue(r)
          /\ Cardinality(FullThrows(r)) = 2 ) =>
            /\ Len(parserCalls[r]) = 2
            /\ parserCalls[r][1].config = [parseLevel |-> 1, debug |-> FALSE]
            /\ parserCalls[r][2].config =
                 [parseLevel |-> 1, debug |-> FALSE,
                  skipChunkErrors |-> TRUE, failOnChunkError |-> FALSE]

(* C5, amended: index.js, `full=true`, both full-depth attempts throw: the *)
(* parser was called exactly three times in the whole request: first with  *)
(* the header-only configuration, then with the strict full-depth          *)
(* configuration, then with the permissive one.                            *)
C5_ThreeParserCallsInOrder ==
    \A r \in Req :
        ( /\ variant = "index" /\ Responded(r) /\ FullTrue(r)
          /\ Cardinality(FullThrows(r)) = 2 ) =>
            /\ Len(parserCalls[r]) = 3
            /\ parserCalls[r][1].config = [parseLevel |-> 0, debug |-> FALSE]
            /\ parserCalls[r][2].config = [parseLevel |-> 1, debug |-> FALSE]
            /\ parserCalls[r][3].config =
                 [parseLevel |-> 1, debug |-> FALSE,
                  skipChunkErrors |-> TRUE, failOnChunkError |-> FALSE]

C5_Witness ==
    \E r \in Req :
        /\ variant = "index" /\ Responded(r) /\ FullTrue(r)
        /\ Cardinality(FullThrows(r)) = 2
        /\ Len(parserCalls[r]) = 3

(* C6: index.js, `full=true`, the strict full-depth attempt and its        *)
(* permissive retry both throw: no further parser call is ever made, and   *)
(* the request ends with an error response, never a success, with the temp *)
(* file gone.                                                              *)
C6_DoubleFullFailureIsAnError ==
    \A r \in Req :
        ( /\ variant = "index" /\ FileWritten(r) /\ FullTrue(r)
          /\ Cardinality(FullThrows(r)) = 2 ) =>
            /\ Len(parserCalls[r]) = 3
            /\ Responded(r) =>
                 /\ IsFailure(Resp(r))
                 /\ "success" \notin DOMAIN Resp(r).body
                 /\ "header" \notin DOMAIN Resp(r).body
                 /\ "data" \notin DOMAIN Resp(r).body
                 /\ ~disk[req[r].file.path].exists
                 /\ Len(responses[r]) = 1

C6_Witness ==
    \E r \in Req :
        /\ variant = "index" /\ FileWritten(r) /\ FullTrue(r)
        /\ Cardinality(FullThrows(r)) = 2
        /\ Responded(r)
        /\ Resp(r).body.error = FullFailedError.message

(* C7: index.js and part_002 (the variants with a size check): for every   *)
(* uploaded file shorter than 9 bytes that reaches the handler's try block *)
(* the parser is never called, the request fails, and, unless the file     *)
(* could not be read at all, it fails with the undersized-input error.     *)
C7_UndersizedFailsBeforeParser ==
    \A r \in Req :
        ( /\ variant \in {"index", "p002"} /\ ExtAccepted(r)
          /\ req[r].file.size < 9 ) =>
            /\ parserCalls[r] = <<>>
            /\ Responded(r) =>
                 /\ IsFailure(Resp(r))
                 /\ err[r] # ReadError =>
                      IF variant = "index"
                      THEN Resp(r).body.error = "File is too small to be a valid replay."
                      ELSE Resp(r).body.details.message = "File is too small to be a valid replay"

C7_Witness ==
    \E r \in Req :
        /\ variant = "index" /\ ExtAccepted(r)
        /\ req[r].file.size = 8
        /\ Responded(r)
        /\ Resp(r).body.error = "File is too small to be a valid replay."
        /\ parserCalls[r] = <<>>

MalformedInputError(r) ==
    IF variant = "index"
    THEN /\ "error" \in DOMAIN Resp(r).body
         /\ Resp(r).body.error \in { "File is too small to be a valid replay.",
                                     "Not a valid .replay (magic mismatch)." }
    ELSE /\ variant = "p002"
         /\ "details" \in DOMAIN Resp(r).body
         /\ Resp(r).body.details.message = "File is too small to be a valid replay"

(* C9: every request that ends with the undersized or the                  *)
(* signature-mismatch error has a client-error (4xx) status and has not    *)
(* called the parser.                                                      *)
C9_MalformedInputIsClientError ==
    \A r \in Req :
        (Responded(r) /\ MalformedInputError(r)) =>
            /\ Resp(r).status >= 400 /\ Resp(r).status <= 499
            /\ parserCalls[r] = <<>>

(* C10: index.js, a request with no file, or with a file whose name does   *)
(* not end in ".replay" (case-insensitively): the parser is never called,  *)
(* the file is never read, the response is a 400 with an error message,    *)
(* and a temp file written for it is gone when the response is sent.       *)
C10_RejectedIntakeNeverParses ==
    \A r \in Req :
        ( /\ variant = "index" /\ req[r] # Undefined
          /\ (req[r].file = Undefined \/ ~EndsInDotReplay(req[r].file.originalname)) ) =>
            /\ parserCalls[r] = <<>>
            /\ readCalls[r] = 0
            /\ Responded(r) =>
                 /\ Resp(r).status = 400
                 /\ "error" \in DOMAIN Resp(r).body
                 /\ Len(responses[r]) = 1
                 /\ FileWritten(r) =>
                      /\ ~disk[req[r].file.path].exists
                      /\ Len(unlinkCalls[r]) = 1
                      /\ unlinkCalls[r][1].path = req[r].file.path

C10_Witness ==
    \E r \in Req :
        /\ variant = "index" /\ FileWritten(r)
        /\ req[r].file.originalname = <<"a", ".", "r", "e", "p", "l", "a", "y", ".", "t", "x", "t">>
        /\ Responded(r)
        /\ Resp(r).status = 400
        /\ unlinkCalls[r] = <<[path |-> req[r].file.path, result |-> "ok"]>>

-----------------------------------------------------------------------------
\* what index.js answers to request r, computed from r's own upload, flag,
\* buffer and parser outcomes alone: status, error message, header and data
\* (Undefined where the response has no such field)
OwnAnswer(r) ==
    LET calls == parserCalls[r]
        fail(m) == [status |-> 500, error |-> m, header |-> Undefined, data |-> Undefined]
        bad(m)  == [status |-> 400, error |-> m, header |-> Undefined, data |-> Undefined]
        b       == replayBuffer[r]
        sigOk   == SubSeq(b, 1, 5) = <<117, 98, 117, 108, 107>>
        manual  == [magic |-> SubSeq(b, 1, 5),
                    version |-> b[6] + 256 * b[7] + 65536 * b[8] + 16777216 * b[9],
                    note |-> "Header extracted manually; full parser failed."]
        header  == IF Returned(calls[1]) THEN calls[1].outcome.value ELSE manual
    IN  IF req[r].file = Undefined THEN bad("No file uploaded.")
        ELSE IF ~EndsInDotReplay(req[r].file.originalname)
             THEN bad("Only .replay files are allowed.")
        ELSE IF calls = <<>>
             THEN IF b = <<>> THEN fail("ENOENT: no such file or directory, open")
                  ELSE fail("File is too small to be a valid replay.")
        ELSE IF Threw(calls[1]) /\ ~sigOk
             THEN fail("Not a valid .replay (magic mismatch).")
        ELSE IF ~FullTrue(r)
             THEN [status |-> 200, error |-> Undefined, header |-> header, data |-> Undefined]
        ELSE IF Threw(calls[Len(calls)])
             THEN fail("Full parse failed. The replay is likely from a newer Fortnite build not yet supported or has malformed chunks.")
        ELSE [status |-> 200, error |-> Undefined, header |-> header,
              data |-> calls[Len(calls)].outcome.value]

\* the same four items read off a response
AnswerOf(resp) ==
    [status |-> resp.status,
     error  |-> IF "error" \in DOMAIN resp.body THEN resp.body.error ELSE Undefined,
     header |-> IF "header" \in DOMAIN resp.body THEN resp.body.header ELSE Undefined,
     data   |-> IF "data" \in DOMAIN resp.body THEN resp.body.data ELSE Undefined]

\* request r keeps to its own temp file and its own data
C11_OwnFileOnly ==
    \A r \in Req :
        /\ FileWritten(r) => req[r].file.path = r
        /\ \A i \in 1..Len(unlinkCalls[r]) : unlinkCalls[r][i].path = r
        /\ replayBuffer[r] # <<>> => replayBuffer[r] \in ConcContents(r)
        /\ Len(responses[r]) <= 1
        /\ Responded(r) => AnswerOf(Resp(r)) = OwnAnswer(r)

\* a step of one request leaves the other request's file, locals, call logs
\* and response alone
C11_StepTouchesOwnStateOnly ==
    \A r, s \in Req :
        (r # s /\ pc'[s] # pc[s]) =>
            /\ disk'[r] = disk[r]
            /\ pc'[r] = pc[r]
            /\ req'[r] = req[r]
            /\ replayBuffer'[r] = replayBuffer[r]
            /\ headerData'[r] = headerData[r]
            /\ fullData'[r] = fullData[r]
            /\ err'[r] = err[r]
            /\ parserCalls'[r] = parserCalls[r]
            /\ readCalls'[r] = readCalls[r]
            /\ unlinkCalls'[r] = unlinkCalls[r]
            /\ responses'[r] = responses[r]

(* C11: two uploads handled concurrently by index.js, under every          *)
(* interleaving of their steps: each request's response is the one its own *)
(* file, flag and parser outcomes give; each request reads its own bytes   *)
(* and calls unlink with its own temp path only; and no step of one        *)
(* request changes the other's temp file, variables, call logs or response.*)
C11_ConcurrentUploadsAreIndependent ==
    []C11_OwnFileOnly /\ [][C11_StepTouchesOwnStateOnly]_vars

C11_Witness ==
    /\ Responded(1) /\ Resp(1).status = 200
    /\ Resp(1).body.header = [kind |-> "doc", id |-> 1]
    /\ unlinkCalls[1] = <<[path |-> 1, result |-> "ok"]>>
    /\ pc[2] = "ix_full2"
    /\ disk[2].exists
    /\ replayBuffer[2] \in ConcContents(2)

-----------------------------------------------------------------------------
\* the route handler (not multer's error path) has answered request r
HandlerResponded(r) == Responded(r) /\ req[r] # Undefined

HasSuccessShape(body) ==
    /\ "success" \in DOMAIN body
    /\ body.success = TRUE
    /\ ("header" \in DOMAIN body \/ "data" \in DOMAIN body)

HasFailureShape(body) ==
    /\ "error" \in DOMAIN body
    /\ body.error # ""

(* C12, as stated: in every variant's handler, every success response has  *)
(* a success indicator together with a header or data payload, and every   *)
(* failure response has an `error` message.                                *)
C12_EveryResponseHasItsShape ==
    \A r \in Req :
        HandlerResponded(r) =>
            IF Resp(r).status = 200
            THEN HasSuccessShape(Resp(r).body)
            ELSE HasFailureShape(Resp(r).body)

(* C12, amended: in every variant's handler except part_001's, every       *)
(* success response has a success indicator together with a header or data *)
(* payload; part_001's success response is the parser's document itself,   *)
(* with no indicator; in every variant every failure response has an       *)
(* `error` message.                                                        *)
C12_ResponseShapesByVariant ==
    \A r \in Req :
        HandlerResponded(r) =>
            IF Resp(r).status # 200 THEN HasFailureShape(Resp(r).body)
            ELSE IF variant = "p001"
                 THEN /\ Resp(r).body = parserCalls[r][1].outcome.value
                      /\ "success" \notin DOMAIN Resp(r).body
            ELSE HasSuccessShape(Resp(r).body)

C12_Witness ==
    \E r \in Req :
        /\ variant = "p001" /\ HandlerResponded(r)
        /\ Resp(r).status = 200
        /\ Resp(r).body \in Docs

-----------------------------------------------------------------------------
\* the positions in r's parser log of the calls made with configuration c
CallsWith(r, c) == {i \in 1..Len(parserCalls[r]) : parserCalls[r][i].config = c}

StrictLiteral == [parseLevel |-> 1, debug |-> FALSE]
PermissiveLiteral ==
    [parseLevel |-> 1, debug |-> FALSE, skipChunkErrors |-> TRUE, failOnChunkError |-> FALSE]

(* C13: index.js, `full=true`: the permissive full-depth attempt is made if *)
(* and only if the strict full-depth attempt threw, and at most once; once  *)
(* a full-depth attempt has succeeded no further parser call is made and    *)
(* the response's `data` is that attempt's result.                          *)
C13_FirstFullSuccessWins ==
    \A r \in Req :
        (variant = "index" /\ FileWritten(r) /\ FullTrue(r)) =>
            LET strict == CallsWith(r, StrictLiteral)
                perm   == CallsWith(r, PermissiveLiteral)
            IN  /\ Cardinality(strict) <= 1
                /\ Cardinality(perm) <= 1
                /\ (perm # {}) <=> (\E i \in strict : Threw(parserCalls[r][i]))
                /\ \A i \in perm : i = Len(parserCalls[r]) /\ i - 1 \in strict
                /\ \A i \in strict \cup perm :
                       Returned(parserCalls[r][i]) =>
                           /\ i = Len(parserCalls[r])
                           /\ Responded(r) =>
                                /\ Len(responses[r]) = 1
                                /\ Resp(r).status = 200
                                /\ Resp(r).body.success = TRUE
                                /\ Resp(r).body.data = parserCalls[r][i].outcome.value

C13_Witness ==
    \E r \in Req :
        /\ variant = "index" /\ FileWritten(r) /\ FullTrue(r) /\ Responded(r)
        /\ Len(parserCalls[r]) = 3
        /\ Threw(parserCalls[r][2])
        /\ Returned(parserCalls[r][3])
        /\ Resp(r).body.data = parserCalls[r][3].outcome.value

-----------------------------------------------------------------------------
\* r is a `full=true` request of index.js whose header-only call threw
FullAfterLightThrew(r) ==
    /\ variant = "index" /\ FileWritten(r) /\ FullTrue(r)
    /\ parserCalls[r] # <<>> /\ Threw(parserCalls[r][1])

SignatureBytes == <<117, 98, 117, 108, 107>>

-----------------------------------------------------------------------------
\* the response carries the summary read from the bytes (signature, version)
CarriesManualSummary(resp) ==
    /\ "header" \in DOMAIN resp.body
    /\ "magic" \in DOMAIN resp.body.header
    /\ "version" \in DOMAIN resp.body.header

-----------------------------------------------------------------------------
(* The parse ladder of index.js, read off the handler's position: the      *)
(* ladder starts with the first parser call (a request that fails before   *)
(* it never leaves NOT_STARTED), an attempt state lasts while its parser    *)
(* call is pending, and a terminal state is entered when the handler picks  *)
(* its response and kept when the response is sent.                        *)
LadderState(r) ==
    IF parserCalls[r] = <<>> THEN "NOT_STARTED"
    ELSE CASE pc[r] = "ix_light"         -> "LIGHT_ATTEMPTED"
           [] pc[r] = "ix_full1"         -> "FULL_ATTEMPTED"
           [] pc[r] = "ix_full2"         -> "FULL_RETRIED"
           [] pc[r] = "ix_catch_unlink"  -> "DONE_FAILED"
           [] pc[r] = "ix_full_unlink"   -> "DONE_SUCCESS"
           [] pc[r] = "ix_header_unlink" ->
                  IF "magic" \in DOMAIN headerData[r]
                  THEN "DONE_DEGRADED" ELSE "DONE_SUCCESS"
           [] OTHER ->
                  IF Resp(r).status # 200 THEN "DONE_FAILED"
                  ELSE IF "data" \in DOMAIN Resp(r).body THEN "DONE_SUCCESS"
                  ELSE IF CarriesManualSummary(Resp(r)) THEN "DONE_DEGRADED"
                  ELSE "DONE_SUCCESS"

TerminalStates == {"DONE_SUCCESS", "DONE_DEGRADED", "DONE_FAILED"}

LadderEdges ==
    { <<"NOT_STARTED", "LIGHT_ATTEMPTED">>,
      <<"LIGHT_ATTEMPTED", "DONE_SUCCESS">>, <<"LIGHT_ATTEMPTED", "DONE_DEGRADED">>,
      <<"LIGHT_ATTEMPTED", "DONE_FAILED">>, <<"LIGHT_ATTEMPTED", "FULL_ATTEMPTED">>,
      <<"FULL_ATTEMPTED", "DONE_SUCCESS">>, <<"FULL_ATTEMPTED", "FULL_RETRIED">>,
      <<"FULL_RETRIED", "DONE_SUCCESS">>, <<"FULL_RETRIED", "DONE_FAILED">> }

\* success (TRUE) or failure (FALSE) of each settled attempt of r, in order
AttemptResults(r) ==
    [i \in 1..Len(parserCalls[r]) |-> Returned(parserCalls[r][i])]

SignatureOk(r) == SubSeq(replayBuffer[r], 1, 5) = SignatureBytes

\* the terminal state the handler's branches give
LadderOutcome(full, results, signatureOk) ==
    IF ~results[1] /\ ~signatureOk THEN "DONE_FAILED"
    ELSE IF ~full THEN (IF results[1] THEN "DONE_SUCCESS" ELSE "DONE_DEGRADED")
    ELSE IF results[Len(results)] THEN "DONE_SUCCESS"
    ELSE "DONE_FAILED"

(* C16, as stated (its last clause): index.js: the terminal state of the    *)
(* ladder is determined solely by the full-requested flag and the success   *)
(* or failure of each attempt: two requests with the same flag and the same *)
(* attempt results end in the same terminal state.                          *)
C16_TerminalDeterminedByFlagAndResults ==
    \A r1, r2 \in Req :
        ( /\ LadderState(r1) \in TerminalStates
          /\ LadderState(r2) \in TerminalStates
          /\ FullTrue(r1) = FullTrue(r2)
          /\ AttemptResults(r1) = AttemptResults(r2) ) =>
            LadderState(r1) = LadderState(r2)

C16_TerminalDeterminedWithSignature ==
    \A r1, r2 \in Req :
        /\ LadderState(r1) \in TerminalStates =>
               /\ LadderState(r1)
                    = LadderOutcome(FullTrue(r1), AttemptResults(r1), SignatureOk(r1))
               /\ Len(parserCalls[r1]) <= 3
        /\ ( /\ LadderState(r1) \in TerminalStates
             /\ LadderState(r2) \in TerminalStates
             /\ FullTrue(r1) = FullTrue(r2)
             /\ AttemptResults(r1) = AttemptResults(r2)
             /\ SignatureOk(r1) = SignatureOk(r2) ) =>
               LadderState(r1) = LadderState(r2)

C16_LadderTransition ==
    \A r \in Req :
        LadderState(r)' # LadderState(r) =>
            <<LadderState(r), LadderState(r)'>> \in LadderEdges

(* C16, amended: index.js, a file that passes the extension and size        *)
(* checks: the ladder follows only the transitions NOT_STARTED ->           *)
(* LIGHT_ATTEMPTED -> {DONE_SUCCESS, DONE_DEGRADED, DONE_FAILED,            *)
(* FULL_ATTEMPTED}, FULL_ATTEMPTED -> {DONE_SUCCESS, FULL_RETRIED},         *)
(* FULL_RETRIED -> {DONE_SUCCESS, DONE_FAILED}, and the terminal state is   *)
(* determined by the full-requested flag, the success or failure of each    *)
(* attempt, and whether the first five bytes are the signature.             *)
C16_LadderFollowsEdges ==
    /\ []C16_TerminalDeterminedWithSignature
    /\ [][C16_LadderTransition]_vars

C16_Witness ==
    /\ LadderState(1) = "DONE_DEGRADED"
    /\ LadderState(2) = "DONE_FAILED"
    /\ Responded(1) /\ Responded(2)
    /\ ~FullTrue(1) /\ ~FullTrue(2)
    /\ AttemptResults(1) = <<FALSE>>
    /\ AttemptResults(2) = <<FALSE>>
    /\ SignatureOk(1) /\ ~SignatureOk(2)

-----------------------------------------------------------------------------
\* the timer of r's race elapsed before the parser call settled
TimedOut(r) == variant = "p000b" /\ err[r] = Error("Parsing timeout")

\* r's race is over: the handler has gone on with the winner
RaceOver(r) == variant = "p000b" /\ parserCalls[r] # <<>> /\ pc[r] # "pt_race"

\* a timed-out request is answered like a parser failure: one deletion, the
\* 500 failure response, the temp file gone
C17_TimeoutIsAParserFailure ==
    \A r \in Req :
        TimedOut(r) =>
            /\ Len(unlinkCalls[r]) = 1
            /\ unlinkCalls[r][1].path = req[r].file.path
            /\ fullData[r] = Undefined
            /\ Len(responses[r]) <= 1
            /\ Responded(r) =>
                 /\ Resp(r).status = 500
                 /\ Resp(r).body.error = "Failed to parse replay file"
                 /\ Resp(r).body.message = "Parsing timeout"
                 /\ "data" \notin DOMAIN Resp(r).body
                 /\ unlinkCalls[r][1].result # "pending"
                 /\ ~disk[req[r].file.path].exists

\* the loser of the race settles late: nothing the handler chose changes
C17_LateSettleChangesNothing ==
    \A r \in Req :
        /\ ( /\ RaceOver(r)
             /\ (timer[r]' # timer[r] \/ parserCalls[r]' # parserCalls[r]) ) =>
               /\ pc[r]' = pc[r]
               /\ err[r]' = err[r]
               /\ fullData[r]' = fullData[r]
               /\ responses[r]' = responses[r]
               /\ unlinkCalls[r]' = unlinkCalls[r]
               /\ disk' = disk
        /\ (variant = "p000b" /\ Responded(r)) =>
               /\ responses[r]' = responses[r]
               /\ unlinkCalls[r]' = unlinkCalls[r]

(* C17: timeout variant of part_000: when the fixed delay elapses before    *)
(* the parser call settles the request is handled as a parser failure (500  *)
(* failure response, temp file deleted); a parser call that settles after   *)
(* the timeout, or a timer that fires after the parser settled, changes     *)
(* neither the response chosen nor causes a second response or deletion.    *)
C17_TimeoutHandledOnce ==
    /\ []C17_TimeoutIsAParserFailure
    /\ [][C17_LateSettleChangesNothing]_vars

C17_Witness ==
    \E r \in Req :
        /\ TimedOut(r) /\ Responded(r)
        /\ timer[r] = "fired"
        /\ Returned(parserCalls[r][1])
        /\ Resp(r).body.message = "Parsing timeout"
        /\ Len(responses[r]) = 1
        /\ Len(unlinkCalls[r]) = 1

-----------------------------------------------------------------------------
FirstConfigLiteral  == [parseLevel |-> 0]
SecondConfigLiteral ==
    [parseLevel |-> 1, skipChunkErrors |-> TRUE, failOnChunkError |-> FALSE, debug |-> FALSE]
ThirdConfigLiteral ==
    [parseLevel |-> 1, skipChunkErrors |-> TRUE, failOnChunkError |-> FALSE, debug |-> TRUE]

(* C18: part_002: safeParseReplay tries its three configurations in their  *)
(* listed order, makes attempt k only if attempts 1..k-1 all threw, returns *)
(* the result of the first attempt that succeeds without any later attempt, *)
(* throws the error of the third attempt when all three throw, and never    *)
(* calls the parser more than three times.                                  *)
C18_SafeParseReplayLadder ==
    \A r \in Req :
        (variant = "p002" /\ FileWritten(r)) =>
            LET calls == parserCalls[r]
                n     == Len(calls)
            IN  /\ n <= 3
                /\ n >= 1 => calls[1].config = FirstConfigLiteral
                /\ n >= 2 => calls[2].config = SecondConfigLiteral
                /\ n >= 3 => calls[3].config = ThirdConfigLiteral
                /\ \A i \in 1..(n - 1) : Threw(calls[i])
                /\ \A i \in 1..n :
                       Returned(calls[i]) =>
                           /\ i = n
                           /\ fullData[r] = calls[i].outcome.value
                           /\ (Responded(r) /\ Resp(r).status = 200) =>
                                  Resp(r).body.data = calls[i].outcome.value
                /\ (n >= 1 /\ calls[n].outcome # Pending /\ \A i \in 1..n : Threw(calls[i])) =>
                       /\ n = 3
                       /\ err[r] = calls[3].outcome.value
                       /\ fullData[r] = Undefined
                       /\ Responded(r) =>
                              /\ Resp(r).status = 500
                              /\ Resp(r).body.details.message = calls[3].outcome.value.message

C18_Witness ==
    \E r \in Req :
        /\ variant = "p002" /\ FileWritten(r) /\ Responded(r)
        /\ Len(parserCalls[r]) = 3
        /\ \A i \in 1..3 : Threw(parserCalls[r][i])
        /\ parserCalls[r][1].outcome.value # parserCalls[r][3].outcome.value
        /\ Resp(r).body.details.message = parserCalls[r][3].outcome.value.message

-----------------------------------------------------------------------------
\* the fields under which the handlers send err.stack
StackFields == {"details", "stack"}

CarriesStack(resp) == DOMAIN resp.body \cap StackFields # {}

(* C19: index.js and both part_000 handlers: the error's stack trace is in  *)
(* a failure response only in non-production mode: in production mode no    *)
(* failure response contains it (in development mode the catch block's      *)
(* response does), and the `error` message is present in either mode.       *)
C19_StackOnlyOutsideProduction ==
    \A r \in Req :
        ( /\ variant \in {"index", "p000a", "p000b"}
          /\ HandlerResponded(r) /\ Resp(r).status >= 400 ) =>
            /\ "error" \in DOMAIN Resp(r).body
            /\ Resp(r).body.error # ""
            /\ nodeEnv = "production" => ~CarriesStack(Resp(r))
            /\ CarriesStack(Resp(r)) =>
                   /\ nodeEnv = "development"
                   /\ Resp(r).status = 500
                   /\ \A f \in DOMAIN Resp(r).body \cap StackFields :
                          Resp(r).body[f] = err[r].stack
            /\ (nodeEnv = "development" /\ Resp(r).status = 500) => CarriesStack(Resp(r))

C19_Witness ==
    \E r \in Req :
        /\ variant = "index" /\ nodeEnv = "production"
        /\ HandlerResponded(r) /\ Resp(r).status = 500
        /\ err[r] = FullFailedError
        /\ DOMAIN Resp(r).body = {"error"}

-----------------------------------------------------------------------------
\* at most one response; the handler is finished exactly when it has
\* responded; an unfinished handler always has a continuation to run
C20_OneResponseWhenDone ==
    \A r \in Req :
        variant = "index" =>
            /\ Len(responses[r]) <= 1
            /\ pc[r] = "done" <=> Len(responses[r]) = 1
            /\ pc[r] \notin {"idle", "done"} => ENABLED IndexStep(r)

\* a response, once sent, is never replaced or followed by another
C20_ResponseSentOnce ==
    \A r \in Req :
        (variant = "index" /\ responses[r]' # responses[r]) =>
            /\ responses[r] = <<>>
            /\ Len(responses[r]') = 1
            /\ pc[r]' = "done"

(* C20: index.js: every request receives exactly one response on every    *)
(* path: no path sends two responses, and no path that returns from or     *)
(* throws inside the try block finishes without a response, whatever the   *)
(* read, parser and deletion outcomes are.                                 *)
C20_ExactlyOneResponse ==
    /\ []C20_OneResponseWhenDone
    /\ [][C20_ResponseSentOnce]_vars

C20_Witness ==
    \E r \in Req :
        /\ variant = "index" /\ pc[r] = "done"
        /\ Len(responses[r]) = 1
        /\ Len(parserCalls[r]) = 3
        /\ Returned(parserCalls[r][3])
        /\ UnlinkFailed(r)
        /\ Resp(r).status = 200

-----------------------------------------------------------------------------
\* at most one call of each configuration, in the order header-only, strict,
\* permissive; a single call when `full` is unset
C21_AtMostThreeParserCalls ==
    \A r \in Req :
        (variant = "index" /\ req[r] # Undefined) =>
            LET calls == parserCalls[r]
                n     == Len(calls)
            IN  /\ n <= 3
                /\ n >= 1 => calls[1].config = [parseLevel |-> 0, debug |-> FALSE]
                /\ n >= 2 => calls[2].config = StrictLiteral
                /\ n >= 3 => calls[3].config = PermissiveLiteral
                /\ FullUnset(r) => n <= 1

\* the handler has been entered for r and has not yet answered
Handling(r) == variant = "index" /\ pc[r] \notin {"idle", "done"}

Answered(r) == pc[r] = "done" /\ Len(responses[r]) = 1

(* C21: index.js, every parser call and every file operation eventually    *)
(* returning or throwing: every request the handler is entered for          *)
(* eventually reaches its response, and the parser is called at most three  *)
(* times (one header-only, one strict full, one permissive full) and at     *)
(* most once when `full` is unset.                                          *)
C21_TerminatesWithinThreeCalls ==
    /\ []C21_AtMostThreeParserCalls
    /\ \A r \in Req : Handling(r) ~> Answered(r)

C21_Witness ==
    \E r \in Req :
        /\ variant = "index" /\ Answered(r)
        /\ readCalls[r] = 1
        /\ Len(parserCalls[r]) = 3
        /\ parserCalls[r][3].config = PermissiveLiteral
        /\ parserCalls[r][3].outcome # Pending
        /\ Len(unlinkCalls[r]) = 1
        /\ unlinkCalls[r][1].result # "pending"

====
